---- MODULE Spec2Model ----
(***************************************************************************)
(* Model of scripts/verify_rss.go: the RSS feed verifier.                  *)
(*                                                                         *)
(* Strings that the program inspects character by character (dates, file   *)
(* paths) are sequences of one-character strings.  Titles and GUIDs are    *)
(* only compared for equality and are plain strings.                       *)
(*                                                                         *)
(* Three entry points are modelled, each with its own specification:       *)
(*   Spec      one call of RSS.Validate on a parsed document               *)
(*   SpecDate  one call of validateRSSDate on a date string                *)
(*   SpecMain  one run of main over a ./feed directory tree                *)
(***************************************************************************)
EXTENDS Integers, Sequences, FiniteSets, TLC

VARIABLES
    pc,        \* control point of the entry point being run
    rss,       \* Validate: the receiver (the parsed document)
    result,    \* Validate: the returned error
    str,       \* validateRSSDate: the argument
    dateErr,   \* validateRSSDate: the returned error
    feed,      \* main: what filepath.Walk will visit, in walk order
    idx,       \* main: index of the next entry the walk hands to the callback
    success,   \* main: the success flag
    walkErr,   \* main: the error returned by filepath.Walk
    out,       \* main: lines printed so far
    exitCode   \* main: process exit status (-1 while running)

vars == <<pc, rss, result, str, dateErr,
          feed, idx, success, walkErr, out, exitCode>>

(***************************************************************************)
(* Bounds                                                                  *)
(***************************************************************************)
MaxItems == 3
MaxFiles == 2

(***************************************************************************)
(* time.Parse(time.RFC1123Z, s) and Time.Format(time.RFC1123Z)             *)
(* layout "Mon, 02 Jan 2006 15:04:05 -0700"                                *)
(***************************************************************************)
Digits == <<"0", "1", "2", "3", "4", "5", "6", "7", "8", "9">>

UpperCase == <<"A", "B", "C", "D", "E", "F", "G", "H", "I", "J", "K", "L", "M",
               "N", "O", "P", "Q", "R", "S", "T", "U", "V", "W", "X", "Y", "Z">>

LowerCase == <<"a", "b", "c", "d", "e", "f", "g", "h", "i", "j", "k", "l", "m",
               "n", "o", "p", "q", "r", "s", "t", "u", "v", "w", "x", "y", "z">>

shortDayNames == << <<"S", "u", "n">>, <<"M", "o", "n">>, <<"T", "u", "e">>,
                    <<"W", "e", "d">>, <<"T", "h", "u">>, <<"F", "r", "i">>,
                    <<"S", "a", "t">> >>

shortMonthNames == << <<"J", "a", "n">>, <<"F", "e", "b">>, <<"M", "a", "r">>,
                      <<"A", "p", "r">>, <<"M", "a", "y">>, <<"J", "u", "n">>,
                      <<"J", "u", "l">>, <<"A", "u", "g">>, <<"S", "e", "p">>,
                      <<"O", "c", "t">>, <<"N", "o", "v">>, <<"D", "e", "c">> >>

Drop(s, n) == SubSeq(s, n + 1, Len(s))

DigitSet == {Digits[k] : k \in 1..10}

Letters == {UpperCase[k] : k \in 1..26} \cup {LowerCase[k] : k \in 1..26}

\* isDigit(s, i): s[i] exists and is a decimal digit (i counts from 1 here)
isDigit(s, i) == i <= Len(s) /\ s[i] \in DigitSet

\* c - '0'
DigitVal == [c \in DigitSet |-> (CHOOSE k \in 1..10 : Digits[k] = c) - 1]

\* c | ('a' - 'A') on a letter
ToLower ==
    [c \in Letters |->
        IF \E k \in 1..26 : UpperCase[k] = c
        THEN LowerCase[CHOOSE k \in 1..26 : UpperCase[k] = c]
        ELSE c]

\* match: equal ignoring ASCII case
match(s1, s2) ==
    \A i \in 1..Len(s1) :
        \/ s1[i] = s2[i]
        \/ /\ s1[i] \in Letters
           /\ s2[i] \in Letters
           /\ ToLower[s1[i]] = ToLower[s2[i]]

\* lookup: the first table entry, from index i on, that is a prefix of val
RECURSIVE lookupFrom(_, _, _)
lookupFrom(tab, val, i) ==
    IF i > Len(tab) THEN [err |-> TRUE, n |-> 0, rest |-> val]
    ELSE IF Len(val) >= Len(tab[i]) /\ match(SubSeq(val, 1, Len(tab[i])), tab[i])
    THEN [err |-> FALSE, n |-> i, rest |-> Drop(val, Len(tab[i]))]
    ELSE lookupFrom(tab, val, i + 1)

lookup(tab, val) == lookupFrom(tab, val, 1)

RECURSIVE cutspace(_)
cutspace(s) == IF s # <<>> /\ s[1] = " " THEN cutspace(Tail(s)) ELSE s

\* skip: remove the layout's literal prefix from value; a space in the
\* layout stands for any run of spaces in value
RECURSIVE skip(_, _)
skip(value, prefix) ==
    IF prefix = <<>> THEN [err |-> FALSE, rest |-> value]
    ELSE IF prefix[1] = " "
    THEN IF value # <<>> /\ value[1] # " "
         THEN [err |-> TRUE, rest |-> value]
         ELSE skip(cutspace(value), cutspace(prefix))
    ELSE IF value = <<>> \/ value[1] # prefix[1]
    THEN [err |-> TRUE, rest |-> value]
    ELSE skip(Tail(value), Tail(prefix))

\* getnum: one or two leading digits; exactly two when fixed
getnum(s, fixed) ==
    IF ~isDigit(s, 1) THEN [err |-> TRUE, n |-> 0, rest |-> s]
    ELSE IF ~isDigit(s, 2)
    THEN IF fixed THEN [err |-> TRUE, n |-> 0, rest |-> s]
         ELSE [err |-> FALSE, n |-> DigitVal[s[1]], rest |-> Tail(s)]
    ELSE [err |-> FALSE, n |-> DigitVal[s[1]] * 10 + DigitVal[s[2]], rest |-> Drop(s, 2)]

\* atoi on a string that consists of digits only
RECURSIVE atoi(_)
atoi(s) == IF s = <<>> THEN 0 ELSE atoi(SubSeq(s, 1, Len(s) - 1)) * 10 + DigitVal[s[Len(s)]]

RECURSIVE Pow10(_)
Pow10(n) == IF n = 0 THEN 1 ELSE 10 * Pow10(n - 1)

commaOrPeriod(c) == c = "." \/ c = ","

\* number of leading characters of value that form ".ddd": the separator
\* and the run of digits after it
RECURSIVE fracLen(_, _)
fracLen(value, n) == IF isDigit(value, n + 1) THEN fracLen(value, n + 1) ELSE n

\* parseNanoseconds: value[1] is the separator, nbytes counts it
parseNanoseconds(value, nbytes) ==
    LET nb == IF nbytes > 10 THEN 10 ELSE nbytes
    IN  atoi(SubSeq(value, 2, nb)) * Pow10(10 - nb)

isLeap(year) == year % 4 = 0 /\ (year % 100 # 0 \/ year % 400 = 0)

daysIn(m, year) ==
    IF m = 2 THEN (IF isLeap(year) THEN 29 ELSE 28)
    ELSE IF m \in {4, 6, 9, 11} THEN 30 ELSE 31

\* days from 1970-01-01 to the first day of the 400-year era yy lies in,
\* plus the day doy of year yy of that era (years start on 1 March)
eraDays(yy, doy) ==
    (yy \div 400) * 146097
    + (yy % 400) * 365 + (yy % 400) \div 4 - (yy % 400) \div 100 + doy - 719468

\* days from 1970-01-01 to the civil date y-m-d
DaysFromCivil(y, m, d) ==
    eraDays(IF m <= 2 THEN y - 1 ELSE y,
            (153 * (IF m > 2 THEN m - 3 ELSE m + 9) + 2) \div 5 + d - 1)

\* the civil date from the year and the day of the year, both counted
\* from 1 March
civilOf(yy, doy, mp) ==
    [year  |-> IF mp < 10 THEN yy ELSE yy + 1,
     month |-> IF mp < 10 THEN mp + 3 ELSE mp - 9,
     day   |-> doy - (153 * mp + 2) \div 5 + 1]

civilOfYear(era, doe, yoe) ==
    civilOf(yoe + era * 400,
            doe - (365 * yoe + yoe \div 4 - yoe \div 100),
            (5 * (doe - (365 * yoe + yoe \div 4 - yoe \div 100)) + 2) \div 153)

civilOfEra(era, doe) ==
    civilOfYear(era, doe,
                (doe - doe \div 1460 + doe \div 36524 - doe \div 146096) \div 365)

\* the civil date of the day z days after 1970-01-01
CivilFromDays(z) ==
    civilOfEra((z + 719468) \div 146097, (z + 719468) % 146097)

\* a time.Time: the instant (day, sec, nsec in UTC) and the zone offset
\* it is displayed in
ParseError == [err |-> TRUE, day |-> 0, sec |-> 0, nsec |-> 0, offset |-> 0]

Date(year, month, day, hour, min, sec, nsec, zoneOffset) ==
    [err |-> FALSE,
     day |-> DaysFromCivil(year, month, day)
             + (hour * 3600 + min * 60 + sec - zoneOffset) \div 86400,
     sec |-> (hour * 3600 + min * 60 + sec - zoneOffset) % 86400,
     nsec |-> nsec,
     offset |-> zoneOffset]

\* The parser's state while it goes through the layout: what is left of
\* value, the fields read so far, and whether an element failed.
NewParse(value) ==
    [err |-> FALSE, rest |-> value, year |-> 0, month |-> 0, day |-> 0,
     hour |-> 0, min |-> 0, sec |-> 0, nsec |-> 0, offset |-> 0]

took(p, r) == [p EXCEPT !.err = r.err, !.rest = r.rest]

\* a literal piece of the layout
literal(p, prefix) == IF p.err THEN p ELSE took(p, skip(p.rest, prefix))

\* "Mon": any weekday name; its value is not kept
stdWeekDay(p) == IF p.err THEN p ELSE took(p, lookup(shortDayNames, p.rest))

tookDay(p, r) == [p EXCEPT !.err = r.err, !.rest = r.rest, !.day = r.n]

\* "02"
stdZeroDay(p) == IF p.err THEN p ELSE tookDay(p, getnum(p.rest, TRUE))

tookMonth(p, r) == [p EXCEPT !.err = r.err, !.rest = r.rest, !.month = r.n]

\* "Jan"
stdMonth(p) == IF p.err THEN p ELSE tookMonth(p, lookup(shortMonthNames, p.rest))

\* "2006": four digits
stdLongYear(p) ==
    IF p.err THEN p
    ELSE IF Len(p.rest) < 4 \/ \E i \in 1..4 : ~isDigit(p.rest, i)
    THEN [p EXCEPT !.err = TRUE]
    ELSE [p EXCEPT !.year = atoi(SubSeq(p.rest, 1, 4)), !.rest = Drop(p.rest, 4)]

tookHour(p, r) ==
    [p EXCEPT !.err = r.err \/ r.n >= 24, !.rest = r.rest, !.hour = r.n]

\* "15": one or two digits
stdHour(p) == IF p.err THEN p ELSE tookHour(p, getnum(p.rest, FALSE))

tookMinute(p, r) ==
    [p EXCEPT !.err = r.err \/ r.n >= 60, !.rest = r.rest, !.min = r.n]

\* "04"
stdZeroMinute(p) == IF p.err THEN p ELSE tookMinute(p, getnum(p.rest, TRUE))

\* a fractional second in the input that the layout does not have
tookFraction(p, n) ==
    [p EXCEPT !.nsec = parseNanoseconds(p.rest, n), !.rest = Drop(p.rest, n)]

fraction(p) ==
    IF ~p.err /\ Len(p.rest) >= 2 /\ commaOrPeriod(p.rest[1]) /\ isDigit(p.rest, 2)
    THEN tookFraction(p, fracLen(p.rest, 2))
    ELSE p

tookSecond(p, r) ==
    fraction([p EXCEPT !.err = r.err \/ r.n >= 60, !.rest = r.rest, !.sec = r.n])

\* "05"
stdZeroSecond(p) == IF p.err THEN p ELSE tookSecond(p, getnum(p.rest, TRUE))

tookZone(p, sign, hr, mm) ==
    IF hr.err \/ mm.err \/ hr.n > 24 \/ mm.n > 60 \/ sign \notin {"+", "-"}
    THEN [p EXCEPT !.err = TRUE]
    ELSE [p EXCEPT !.offset = IF sign = "-" THEN -((hr.n * 60 + mm.n) * 60)
                              ELSE (hr.n * 60 + mm.n) * 60,
                   !.rest = Drop(p.rest, 5)]

\* "-0700"
stdNumTZ(p) ==
    IF p.err THEN p
    ELSE IF Len(p.rest) < 5 THEN [p EXCEPT !.err = TRUE]
    ELSE tookZone(p, p.rest[1], getnum(SubSeq(p.rest, 2, 3), TRUE),
                  getnum(SubSeq(p.rest, 4, 5), TRUE))

\* after the layout: no text may be left and the day must exist
parsed(p) ==
    IF p.err \/ p.rest # <<>> \/ p.day < 1 \/ p.day > daysIn(p.month, p.year)
    THEN ParseError
    ELSE Date(p.year, p.month, p.day, p.hour, p.min, p.sec, p.nsec, p.offset)

Parse(value) ==
    parsed(stdNumTZ(literal(stdZeroSecond(literal(stdZeroMinute(literal(
        stdHour(literal(stdLongYear(literal(stdMonth(literal(stdZeroDay(literal(
            stdWeekDay(NewParse(value)),
            <<",", " ">>)), <<" ">>)), <<" ">>)), <<" ">>)),
        <<":">>)), <<":">>)), <<" ">>)))

\* appendInt: x in decimal, zero-padded to width
RECURSIVE appendInt(_, _)
appendInt(x, width) ==
    IF width = 0 THEN <<>>
    ELSE appendInt(x \div 10, width - 1) \o <<Digits[(x % 10) + 1]>>

\* the layout filled in from the local day number, the local second of
\* that day, its civil date and the zone offset
formatted(lday, lsec, c, offset, zone) ==
    shortDayNames[((lday + 4) % 7) + 1] \o <<",", " ">>
    \o appendInt(c.day, 2) \o <<" ">>
    \o shortMonthNames[c.month] \o <<" ">>
    \o appendInt(c.year, 4) \o <<" ">>
    \o appendInt(lsec \div 3600, 2) \o <<":">>
    \o appendInt((lsec % 3600) \div 60, 2) \o <<":">>
    \o appendInt(lsec % 60, 2) \o <<" ">>
    \o <<IF offset < 0 THEN "-" ELSE "+">>
    \o appendInt(zone \div 60, 2) \o appendInt(zone % 60, 2)

formatLocal(lday, lsec, offset) ==
    formatted(lday, lsec, CivilFromDays(lday), offset,
              (IF offset < 0 THEN -offset ELSE offset) \div 60)

Format(t) ==
    formatLocal(t.day + (t.sec + t.offset) \div 86400, (t.sec + t.offset) % 86400, t.offset)

Equal_sameZone(t, u) ==
    t.day = u.day /\ t.sec = u.sec /\ t.nsec = u.nsec /\ t.offset = u.offset

\* Time.Equal: same instant, whatever the zone
Equal(t, u) == t.day = u.day /\ t.sec = u.sec /\ t.nsec = u.nsec

(***************************************************************************)
(* Errors.  fmt.Errorf builds a message from a format and its arguments;   *)
(* an error is the record of those parts.  ctx and name hold what a        *)
(* wrapping rule puts in front (its tag and the item title), got and want   *)
(* the date strings of the message.                                        *)
(***************************************************************************)
Nil == [msg |-> "", ctx |-> "", name |-> "", got |-> <<>>, want |-> <<>>]

Errorf(msg, name, got, want) ==
    [msg |-> msg, ctx |-> "", name |-> name, got |-> got, want |-> want]

\* fmt.Errorf("<ctx> ...: %v", err)
Wrap(ctx, name, err) == [err EXCEPT !.ctx = ctx, !.name = name]

\* errors.Join: nil when no error is non-nil, else the non-nil errors in order
Join(es) ==
    LET nonNil == SelectSeq(es, LAMBDA e : e # Nil)
    IN  [isNil |-> nonNil = <<>>, errs |-> nonNil]

(***************************************************************************)
(* validateRSSDate                                                         *)
(***************************************************************************)
\* the second check: the string must be what the parsed time formats to
roundTrip(s, expected) ==
    IF s # expected THEN Errorf("day of week is not correct", "", s, expected) ELSE Nil

checked_noRoundTrip(s, t) ==
    IF t.err THEN Errorf("invalid date format in", "", s, <<>>) ELSE Nil

checked(s, t) ==
    IF t.err THEN Errorf("invalid date format in", "", s, <<>>)
    ELSE roundTrip(s, Format(t))

validateRSSDate_noRoundTrip(s) == checked_noRoundTrip(s, Parse(s))

validateRSSDate(s) == checked(s, Parse(s))

(***************************************************************************)
(* The rules of RSS.Validate                                               *)
(***************************************************************************)
\* if err != nil { return fmt.Errorf("<ctx> ...: %v", err) }
wrapped(ctx, name, err) == IF err # Nil THEN Wrap(ctx, name, err) ELSE Nil

validatePubDate(r) == wrapped("channel pub date", "", validateRSSDate(r.Channel.PubDate))

RECURSIVE itemDatesLast(_, _, _)
itemDatesLast(items, i, last) ==
    IF i > Len(items) THEN last
    ELSE IF validateRSSDate(items[i].PubDate) # Nil
    THEN itemDatesLast(items, i + 1,
             wrapped("item pub date", items[i].Title, validateRSSDate(items[i].PubDate)))
    ELSE itemDatesLast(items, i + 1, last)

\* the loop of validateItemDates from item i on; err is what the date
\* validator said of item i
RECURSIVE itemDatesFrom(_, _, _)
itemDatesFrom(items, i, err) ==
    IF i > Len(items) THEN Nil
    ELSE IF err # Nil THEN Wrap("item pub date", items[i].Title, err)
    ELSE IF i + 1 > Len(items) THEN Nil
    ELSE itemDatesFrom(items, i + 1, validateRSSDate(items[i + 1].PubDate))

validateItemDates_reportsLast(r) == itemDatesLast(r.Channel.Items, 1, Nil)

validateItemDates(r) ==
    IF r.Channel.Items = <<>> THEN Nil
    ELSE itemDatesFrom(r.Channel.Items, 1, validateRSSDate(r.Channel.Items[1].PubDate))

\* the loop of validateItemGUIDs from item i on; guids is the set of keys
\* the map holds true for
RECURSIVE itemGUIDsFrom(_, _, _)
itemGUIDsFrom(items, i, guids) ==
    IF i > Len(items) THEN Nil
    ELSE IF items[i].GUID \in guids
    THEN Errorf("duplicate GUID found", items[i].GUID, <<>>, <<>>)
    ELSE itemGUIDsFrom(items, i + 1, guids \cup {items[i].GUID})

RECURSIVE itemGUIDsAdjacent(_, _, _)
itemGUIDsAdjacent(items, i, guids) ==
    IF i > Len(items) THEN Nil
    ELSE IF items[i].GUID \in guids
    THEN Errorf("duplicate GUID found", items[i].GUID, <<>>, <<>>)
    ELSE itemGUIDsAdjacent(items, i + 1, {items[i].GUID})

validateItemGUIDs_adjacentOnly(r) == itemGUIDsAdjacent(r.Channel.Items, 1, {})

validateItemGUIDs(r) == itemGUIDsFrom(r.Channel.Items, 1, {})

\* validatePubDateUpdated once both dates went through time.Parse
compared(r, chanDate, itemDate) ==
    IF chanDate.err
    THEN Errorf("invalid date format in channel", "", r.Channel.PubDate, <<>>)
    ELSE IF itemDate.err
    THEN Errorf("invalid date format in item", "", r.Channel.Items[1].PubDate, <<>>)
    ELSE IF ~Equal(chanDate, itemDate)
    THEN Errorf("publication dates of channel and item do not match", "", <<>>, <<>>)
    ELSE Nil

compared_sameText(r, chanDate, itemDate) ==
    IF chanDate.err
    THEN Errorf("invalid date format in channel", "", r.Channel.PubDate, <<>>)
    ELSE IF itemDate.err
    THEN Errorf("invalid date format in item", "", r.Channel.Items[1].PubDate, <<>>)
    ELSE IF r.Channel.PubDate # r.Channel.Items[1].PubDate
    THEN Errorf("publication dates of channel and item do not match", "", <<>>, <<>>)
    ELSE Nil

compared_strictDates(r, chanErr, itemErr, chanDate, itemDate) ==
    IF chanErr # Nil
    THEN Errorf("invalid date format in channel", "", r.Channel.PubDate, <<>>)
    ELSE IF itemErr # Nil
    THEN Errorf("invalid date format in item", "", r.Channel.Items[1].PubDate, <<>>)
    ELSE IF ~Equal(chanDate, itemDate)
    THEN Errorf("publication dates of channel and item do not match", "", <<>>, <<>>)
    ELSE Nil

validatePubDateUpdated_strictDates(r) ==
    IF Len(r.Channel.Items) = 0 THEN Nil
    ELSE compared_strictDates(r, validateRSSDate(r.Channel.PubDate),
                              validateRSSDate(r.Channel.Items[1].PubDate),
                              Parse(r.Channel.PubDate), Parse(r.Channel.Items[1].PubDate))

validatePubDateUpdated_sameText(r) ==
    IF Len(r.Channel.Items) = 0 THEN Nil
    ELSE compared_sameText(r, Parse(r.Channel.PubDate), Parse(r.Channel.Items[1].PubDate))

validatePubDateUpdated(r) ==
    IF Len(r.Channel.Items) = 0 THEN Nil
    ELSE compared(r, Parse(r.Channel.PubDate), Parse(r.Channel.Items[1].PubDate))

(***************************************************************************)
(* RSS.Validate                                                            *)
(***************************************************************************)
rules_datesBeforeGUIDs ==
    <<"validatePubDate", "validateItemDates", "validateItemGUIDs", "validatePubDateUpdated">>

\* the rules slice, in the order of the composite literal
rules ==
    <<"validatePubDate", "validateItemGUIDs", "validateItemDates", "validatePubDateUpdated">>

\* rule(): the call of one element of the rules slice
RunRule(name, r) ==
    CASE name = "validatePubDate"        -> validatePubDate(r)
      [] name = "validateItemGUIDs"      -> validateItemGUIDs(r)
      [] name = "validateItemDates"      -> validateItemDates(r)
      [] name = "validatePubDateUpdated" -> validatePubDateUpdated(r)

\* if err := rule(); err != nil { errs = append(errs, err) }
collected(es, err) == IF err # Nil THEN Append(es, err) ELSE es

\* the for loop over rules from index i on, with errs collected so far
RECURSIVE runRules(_, _, _)
runRules(r, i, es) ==
    IF i > Len(rules) THEN es
    ELSE runRules(r, i + 1, collected(es, RunRule(rules[i], r)))

RECURSIVE runRulesUntilError(_, _, _)
runRulesUntilError(r, i, es) ==
    IF i > Len(rules) \/ es # <<>> THEN es
    ELSE runRulesUntilError(r, i + 1, collected(es, RunRule(rules[i], r)))

Validate_stopsAtFirstError(r) == Join(runRulesUntilError(r, 1, <<>>))

Validate(r) == Join(runRules(r, 1, <<>>))


(***************************************************************************)
(* Inputs: date strings                                                    *)
(***************************************************************************)
\* a date string from its eight fields, with the layout's separators
DateStr(wd, dd, mon, yyyy, hh, mi, ss, tz) ==
    wd \o <<",", " ">> \o dd \o <<" ">> \o mon \o <<" ">> \o yyyy \o <<" ">>
       \o hh \o <<":">> \o mi \o <<":">> \o ss \o <<" ">> \o tz

Y2018 == <<"2", "0", "1", "8">>
Y2019 == <<"2", "0", "1", "9">>
Y2020 == <<"2", "0", "2", "0">>
UTC   == <<"+", "0", "0", "0", "0">>

\* "Tue, 01 Jan 2019 00:00:00 +0000"
TueJan1 == DateStr(<<"T", "u", "e">>, <<"0", "1">>, <<"J", "a", "n">>, Y2019,
                   <<"0", "0">>, <<"0", "0">>, <<"0", "0">>, UTC)

\* "Mon, 31 Dec 2018 16:00:00 -0800": the same instant as TueJan1
MonDec31 == DateStr(<<"M", "o", "n">>, <<"3", "1">>, <<"D", "e", "c">>, Y2018,
                    <<"1", "6">>, <<"0", "0">>, <<"0", "0">>, <<"-", "0", "8", "0", "0">>)

\* "Wed, 01 Jan 2019 00:00:00 +0000": TueJan1 with a wrong weekday
WedJan1 == DateStr(<<"W", "e", "d">>, <<"0", "1">>, <<"J", "a", "n">>, Y2019,
                   <<"0", "0">>, <<"0", "0">>, <<"0", "0">>, UTC)

\* "Wed, 02 Jan 2019 00:00:00 +0000": valid, one day after TueJan1
WedJan2 == DateStr(<<"W", "e", "d">>, <<"0", "2">>, <<"J", "a", "n">>, Y2019,
                   <<"0", "0">>, <<"0", "0">>, <<"0", "0">>, UTC)

\* "Tue, 01 Jan 2019 00:00:00 -0000": TueJan1 with the zone written -0000
TueJan1Minus == DateStr(<<"T", "u", "e">>, <<"0", "1">>, <<"J", "a", "n">>, Y2019,
                        <<"0", "0">>, <<"0", "0">>, <<"0", "0">>, <<"-", "0", "0", "0", "0">>)

\* "2019-01-01": not in the layout at all
IsoDate == <<"2", "0", "1", "9", "-", "0", "1", "-", "0", "1">>

\* "": what an absent pubDate element unmarshals to
Empty == <<>>

ChannelDates == {TueJan1, MonDec31, WedJan1, WedJan2, TueJan1Minus, IsoDate, Empty}

ItemDates == {TueJan1, MonDec31, WedJan1, IsoDate}

\* the date strings validateRSSDate is tried on: every combination of the
\* field spellings below, and a few strings outside that shape
WeekdayTokens == {<<"M", "o", "n">>, <<"T", "u", "e">>, <<"W", "e", "d">>, <<"S", "a", "t">>,
                  <<"t", "u", "e">>, <<"T", "u", "e", "s">>}
DayTokens     == {<<"0", "1">>, <<"1">>, <<"2", "9">>, <<"3", "1">>}
MonthTokens   == {<<"J", "a", "n">>, <<"F", "e", "b">>, <<"D", "e", "c">>, <<"d", "e", "c">>}
YearTokens    == {Y2018, Y2019, Y2020}
HourTokens    == {<<"0", "0">>, <<"0">>, <<"1", "6">>, <<"2", "4">>}
MinuteTokens  == {<<"0", "0">>, <<"6", "0">>}
SecondTokens  == {<<"0", "0">>, <<"0", "0", ".", "5">>, <<"5", "9">>}
ZoneTokens    == {UTC, <<"-", "0", "0", "0", "0">>, <<"-", "0", "8", "0", "0">>,
                  <<"+", "0", "0", "6", "0">>, <<"Z">>}

DateStrings ==
    {DateStr(wd, dd, mon, yyyy, hh, mi, ss, tz) :
        wd \in WeekdayTokens, dd \in DayTokens, mon \in MonthTokens, yyyy \in YearTokens,
        hh \in HourTokens, mi \in MinuteTokens, ss \in SecondTokens, tz \in ZoneTokens}
    \cup {Empty, IsoDate,
          TueJan1 \o <<" ">>,
          <<"T", "u", "e", ",", " ", " ">> \o Drop(TueJan1, 5)}

(***************************************************************************)
(* Inputs: documents (what xml.Unmarshal leaves in an RSS value).  Title   *)
(* and Description of the channel and Description of an item are read by   *)
(* no rule and are left out.  No rule compares titles; every item of a     *)
(* document carries a title of its own.                                    *)
(***************************************************************************)
GUIDs == {"abc123", "def456"}

ItemTitle(i) == "Post " \o ToString(i)

\* what is chosen freely for an item
ItemChoices == [PubDate : ItemDates, GUID : GUIDs]

ItemsOf(c) ==
    [i \in 1..Len(c) |-> [Title |-> ItemTitle(i), PubDate |-> c[i].PubDate, GUID |-> c[i].GUID]]

\* the sequences over S of length n, and of length up to n
RECURSIVE SeqsOfLen(_, _)
SeqsOfLen(S, n) ==
    IF n = 0 THEN {<<>>}
    ELSE {Append(s, x) : s \in SeqsOfLen(S, n - 1), x \in S}

SeqsUpTo(S, n) == UNION {SeqsOfLen(S, k) : k \in 0..n}

Docs == {[Channel |-> [PubDate |-> d, Items |-> ItemsOf(c)]] :
            d \in ChannelDates, c \in SeqsUpTo(ItemChoices, MaxItems)}

\* var rss RSS
ZeroRSS == [Channel |-> [PubDate |-> <<>>, Items |-> <<>>]]

NilJoin == [isNil |-> TRUE, errs |-> <<>>]

\* a nil error of main and verifyRSS, whose errors are messages
NoError == "nil"

(***************************************************************************)
(* Spec: RSS.Validate called on a document                                 *)
(***************************************************************************)
MainIdle ==
    /\ feed = <<>>
    /\ idx = 1
    /\ success = TRUE
    /\ walkErr = NoError
    /\ out = <<>>
    /\ exitCode = -1

DateIdle == str = <<>> /\ dateErr = Nil

ValidateIdle == rss = ZeroRSS /\ result = NilJoin

Init ==
    /\ pc = "Validate"
    /\ rss \in Docs
    /\ result = NilJoin
    /\ DateIdle
    /\ MainIdle

CallValidate ==
    /\ pc = "Validate"
    /\ result' = Validate(rss)
    /\ pc' = "returned"
    /\ UNCHANGED <<rss, str, dateErr, feed, idx, success, walkErr, out, exitCode>>

Next == CallValidate

Spec == Init /\ [][Next]_vars

(***************************************************************************)
(* SpecDate: validateRSSDate called on a date string                       *)
(***************************************************************************)
InitDate ==
    /\ pc = "validateRSSDate"
    /\ str \in DateStrings
    /\ dateErr = Nil
    /\ ValidateIdle
    /\ MainIdle

CallValidateRSSDate ==
    /\ pc = "validateRSSDate"
    /\ dateErr' = validateRSSDate(str)
    /\ pc' = "dateReturned"
    /\ UNCHANGED <<rss, result, str, feed, idx, success, walkErr, out, exitCode>>

NextDate == CallValidateRSSDate

SpecDate == InitDate /\ [][NextDate]_vars


(***************************************************************************)
(* SpecMain: main walks ./feed                                             *)
(*                                                                         *)
(* feed lists what filepath.Walk hands to the callback, in walk order: the *)
(* root, then the entries below it in lexical order.  An entry is its      *)
(* path, whether reaching it failed (Lstat or ReadDir error), whether it   *)
(* is a directory, and for a file what reading and unmarshalling it gives. *)
(***************************************************************************)
FeedDir == <<"f", "e", "e", "d", "/">>

\* names below ./feed, in lexical (byte) order
FileNames == << <<"E", ".", "X", "M", "L">>,
                <<"a", ".", "x", "m", "l">>,
                <<"b", ".", "r", "s", "s">>,
                <<"c", ".", "t", "x", "t">>,
                <<"x", "m", "l">> >>

GoodFeed ==
    [Channel |-> [PubDate |-> TueJan1,
                  Items |-> << [Title |-> ItemTitle(1), PubDate |-> TueJan1, GUID |-> "abc123"] >>]]

DupFeed ==
    [Channel |-> [PubDate |-> TueJan1,
                  Items |-> << [Title |-> ItemTitle(1), PubDate |-> TueJan1, GUID |-> "abc123"],
                               [Title |-> ItemTitle(2), PubDate |-> TueJan1, GUID |-> "abc123"] >>]]

SampleFeeds == {GoodFeed, DupFeed, ZeroRSS}

NoData == [readErr |-> FALSE, xmlErr |-> FALSE, rss |-> ZeroRSS]

FileData ==
    {[readErr |-> TRUE, xmlErr |-> FALSE, rss |-> ZeroRSS],
     [readErr |-> FALSE, xmlErr |-> TRUE, rss |-> ZeroRSS]}
    \cup {[readErr |-> FALSE, xmlErr |-> FALSE, rss |-> d] : d \in SampleFeeds}

EntryKinds ==
    {[err |-> TRUE, isDir |-> FALSE, data |-> NoData],
     [err |-> FALSE, isDir |-> TRUE, data |-> NoData]}
    \cup {[err |-> FALSE, isDir |-> FALSE, data |-> d] : d \in FileData}

Entry(path, kind) ==
    [path |-> path, err |-> kind.err, isDir |-> kind.isDir, data |-> kind.data]

\* the members of a set of numbers in increasing order
RECURSIVE Sorted(_)
Sorted(S) ==
    IF S = {} THEN <<>>
    ELSE LET m == CHOOSE x \in S : \A y \in S : x <= y
         IN  <<m>> \o Sorted(S \ {m})

RootPath == <<".", "/", "f", "e", "e", "d">>

HasSuffix(s, suffix) ==
    Len(s) >= Len(suffix) /\ SubSeq(s, Len(s) - Len(suffix) + 1, Len(s)) = suffix

\* verifyRSS: the returned error and the line it prints
verifyRSS(e) ==
    IF e.data.readErr THEN [err |-> "error reading file", lines |-> <<>>]
    ELSE IF e.data.xmlErr THEN [err |-> "invalid XML in", lines |-> <<>>]
    ELSE IF ~Validate(e.data.rss).isNil THEN [err |-> "error in", lines |-> <<>>]
    ELSE [err |-> NoError,
          lines |-> << [text |-> "RSS file verification passed for", path |-> e.path] >>]

\* info is a file and path ends in .xml or .rss
isFeedFile(e) ==
    ~e.isDir /\ (HasSuffix(e.path, <<".", "x", "m", "l">>)
                 \/ HasSuffix(e.path, <<".", "r", "s", "s">>))

failureLine(e, v) ==
    IF v.err # NoError THEN << [text |-> "Validation failed", path |-> e.path] >> ELSE <<>>

verified_resetsSuccess(e, succ, v) ==
    [ret |-> NoError,
     success |-> v.err = NoError,
     lines |-> << [text |-> "Verifying", path |-> e.path] >> \o v.lines \o failureLine(e, v)]

\* the body of the callback's if statement, v being what verifyRSS returned
verified(e, succ, v) ==
    [ret |-> NoError,
     success |-> IF v.err # NoError THEN FALSE ELSE succ,
     lines |-> << [text |-> "Verifying", path |-> e.path] >> \o v.lines \o failureLine(e, v)]

walkFn_resetsSuccess(e, succ) ==
    IF e.err THEN [ret |-> "walk error", success |-> succ, lines |-> <<>>]
    ELSE IF isFeedFile(e) THEN verified_resetsSuccess(e, succ, verifyRSS(e))
    ELSE [ret |-> NoError, success |-> succ, lines |-> <<>>]

\* the callback given to filepath.Walk: the error it returns, the success
\* flag after it, and the lines it prints
walkFn(e, succ) ==
    IF e.err THEN [ret |-> "walk error", success |-> succ, lines |-> <<>>]
    ELSE IF isFeedFile(e) THEN verified(e, succ, verifyRSS(e))
    ELSE [ret |-> NoError, success |-> succ, lines |-> <<>>]

exitStatus_ignoresSuccess(werr, succ) == IF werr # NoError THEN 1 ELSE 0

\* the status main ends with after the walk
exitStatus(werr, succ) ==
    IF werr # NoError THEN 1
    ELSE IF ~succ THEN 1
    ELSE 0

Root(rootErr) == [path |-> RootPath, err |-> rootErr, isDir |-> TRUE, data |-> NoData]

\* the entries below the root: up to MaxFiles of the names, in order
Listings ==
    UNION {{[i \in 1..Cardinality(names) |->
                Entry(FeedDir \o FileNames[Sorted(names)[i]], kinds[i])] :
            kinds \in SeqsOfLen(EntryKinds, Cardinality(names))} :
           names \in {n \in SUBSET (1..Len(FileNames)) : Cardinality(n) <= MaxFiles}}

\* a root that cannot be read has nothing below it
Feeds == {<<Root(FALSE)>> \o l : l \in Listings} \cup {<<Root(TRUE)>>}

InitMain ==
    /\ pc = "walk"
    /\ feed \in Feeds
    /\ idx = 1
    /\ success = TRUE
    /\ walkErr = NoError
    /\ out = <<>>
    /\ exitCode = -1
    /\ ValidateIdle
    /\ DateIdle

\* filepath.Walk calls the callback on the next entry; an error the
\* callback returns ends the walk
walked(r) ==
    /\ success' = r.success
    /\ out' = out \o r.lines
    /\ walkErr' = r.ret
    /\ pc' = IF r.ret # NoError THEN "walked" ELSE "walk"

WalkStep ==
    /\ pc = "walk"
    /\ idx <= Len(feed)
    /\ walked(walkFn(feed[idx], success))
    /\ idx' = idx + 1
    /\ UNCHANGED <<rss, result, str, dateErr, feed, exitCode>>

\* filepath.Walk returns nil after the last entry
WalkReturn ==
    /\ pc = "walk"
    /\ idx > Len(feed)
    /\ pc' = "walked"
    /\ UNCHANGED <<rss, result, str, dateErr, feed, idx, success, walkErr, out, exitCode>>

\* main after the walk: report a walk error, then exit
MainExit ==
    /\ pc = "walked"
    /\ out' = IF walkErr # NoError
              THEN Append(out, [text |-> "Error walking the path", path |-> <<>>])
              ELSE out
    /\ exitCode' = exitStatus(walkErr, success)
    /\ pc' = "exited"
    /\ UNCHANGED <<rss, result, str, dateErr, feed, idx, success, walkErr>>

NextMain == WalkStep \/ WalkReturn \/ MainExit

SpecMain == InitMain /\ [][NextMain]_vars


(***************************************************************************)
(* Properties                                                              *)
(***************************************************************************)
Items == rss.Channel.Items

ErrSet == {result.errs[j] : j \in 1..Len(result.errs)}

IsChannelDateErr(e) == e.ctx = "channel pub date"
IsItemDateErr(e)    == e.ctx = "item pub date"
IsGUIDErr(e)        == e.msg = "duplicate GUID found"
IsConsistencyErr(e) ==
    e.msg \in {"invalid date format in channel", "invalid date format in item",
               "publication dates of channel and item do not match"}

\* the smallest member of a non-empty set of numbers
Least(S) == CHOOSE x \in S : \A y \in S : x <= y

\* C1: Validate runs all four rules on every document: the returned
\* aggregate holds a rule's error exactly when that rule, evaluated on
\* its own on the same document, gives an error, and holds nothing else.
C1_EveryRuleContributes ==
    pc = "returned" =>
        /\ \A e \in {validatePubDate(rss), validateItemDates(rss),
                     validateItemGUIDs(rss), validatePubDateUpdated(rss)} :
              (e # Nil) <=> (e \in ErrSet)
        /\ Nil \notin ErrSet
        /\ Cardinality(ErrSet) = Len(result.errs)
        /\ result.isNil <=> (result.errs = <<>>)

\* a document on which all four rules fail, and all four errors returned
C1_Witness ==
    /\ pc = "returned"
    /\ validatePubDate(rss) # Nil
    /\ validateItemDates(rss) # Nil
    /\ validateItemGUIDs(rss) # Nil
    /\ validatePubDateUpdated(rss) # Nil
    /\ Len(result.errs) = 4

\* place of an error's rule in the order the specification lists the rules
SpecRank(e) ==
    IF IsChannelDateErr(e) THEN 1
    ELSE IF IsItemDateErr(e) THEN 2
    ELSE IF IsGUIDErr(e) THEN 3
    ELSE 4

\* place of an error's rule in the rules slice of Validate
SliceRank(e) ==
    IF IsChannelDateErr(e) THEN 1
    ELSE IF IsGUIDErr(e) THEN 2
    ELSE IF IsItemDateErr(e) THEN 3
    ELSE 4

\* C2 as stated: the returned errors are ordered channel date, item date,
\* identifier uniqueness, consistency.
C2_SpecOrder ==
    pc = "returned" =>
        \A i, j \in 1..Len(result.errs) :
            i < j => SpecRank(result.errs[i]) < SpecRank(result.errs[j])

\* C2 (amended): the returned errors are ordered channel date, identifier
\* uniqueness, item date, consistency: a duplicate-identifier error comes
\* before an item-date error.
C2_SliceOrder ==
    pc = "returned" =>
        \A i, j \in 1..Len(result.errs) :
            i < j => SliceRank(result.errs[i]) < SliceRank(result.errs[j])

\* a document that breaks both the item date rule and the uniqueness rule
C2_Witness ==
    /\ pc = "returned"
    /\ \E e \in ErrSet : IsItemDateErr(e)
    /\ \E e \in ErrSet : IsGUIDErr(e)

\* the precondition of C3, stated on the document
WellFormed(r) ==
    /\ validateRSSDate(r.Channel.PubDate) = Nil
    /\ \A i \in 1..Len(r.Channel.Items) : validateRSSDate(r.Channel.Items[i].PubDate) = Nil
    /\ \A i, j \in 1..Len(r.Channel.Items) :
          i # j => r.Channel.Items[i].GUID # r.Channel.Items[j].GUID
    /\ \/ r.Channel.Items = <<>>
       \/ LET c == Parse(r.Channel.PubDate)
              i == Parse(r.Channel.Items[1].PubDate)
          IN  c.day = i.day /\ c.sec = i.sec /\ c.nsec = i.nsec

\* C3: a document whose dates all pass the date validator, whose
\* identifiers are pairwise distinct and whose channel instant is that of
\* item 0 (or that has no items) is returned no error.
C3_ValidDocumentPasses ==
    (pc = "returned" /\ WellFormed(rss)) => (result.isNil /\ result.errs = <<>>)

\* a valid document of two items whose channel date is written in another
\* zone than its first item's
C3_Witness ==
    /\ pc = "returned"
    /\ WellFormed(rss)
    /\ Len(Items) = 2
    /\ rss.Channel.PubDate # Items[1].PubDate
    /\ result.isNil

\* C6: the uniqueness rule gives no error exactly when the identifiers
\* are pairwise distinct, and otherwise one error, naming the identifier
\* of the first item whose identifier occurred before it.
Repeats == {j \in 1..Len(Items) : \E i \in 1..(j - 1) : Items[i].GUID = Items[j].GUID}

Invalid == {i \in 1..Len(Items) : validateRSSDate(Items[i].PubDate) # Nil}

C7_FirstInvalidItemDate ==
    pc = "returned" =>
        LET invalid == Invalid
        IN  IF invalid = {}
            THEN ~\E e \in ErrSet : IsItemDateErr(e)
            ELSE LET first == Items[Least(invalid)]
                 IN  /\ Len(SelectSeq(result.errs, IsItemDateErr)) = 1
                     /\ \A e \in ErrSet :
                           IsItemDateErr(e) =>
                               /\ e.name = first.Title
                               /\ e.got = first.PubDate
                               /\ e.msg = validateRSSDate(first.PubDate).msg

\* three items: the first is valid, the second and third are invalid in
\* different ways and have different titles
C7_Witness ==
    /\ pc = "returned"
    /\ Len(Items) = 3
    /\ Invalid = {2, 3}
    /\ Items[2].Title # Items[3].Title
    /\ Items[2].PubDate # Items[3].PubDate
    /\ \E e \in ErrSet : IsItemDateErr(e) /\ e.name = Items[2].Title

\* C8: the consistency rule gives an error exactly when the document has
\* an item and the channel date does not parse, or the date of item 0
\* does not parse, or the two are different instants.
SameInstant(t, u) == t.day = u.day /\ t.sec = u.sec /\ t.nsec = u.nsec

C8_ConsistencyRule ==
    pc = "returned" =>
        ((\E e \in ErrSet : IsConsistencyErr(e))
         <=> /\ Len(Items) >= 1
             /\ LET c == Parse(rss.Channel.PubDate)
                    i == Parse(Items[1].PubDate)
                IN  c.err \/ i.err \/ ~SameInstant(c, i))

\* the channel date and the date of item 0 are one instant in two zones,
\* a later item has a date that does not parse, and the rule is silent
C8_Witness ==
    /\ pc = "returned"
    /\ Len(Items) >= 2
    /\ rss.Channel.PubDate = MonDec31
    /\ Items[1].PubDate = TueJan1
    /\ Parse(Items[2].PubDate).err
    /\ ~\E e \in ErrSet : IsConsistencyErr(e)

\* C10: for a document with an item, a channel date that does not parse
\* is reported twice, by the channel date rule and by the consistency
\* rule; a channel date that parses, does not survive the round trip and
\* is the instant of item 0 is reported by the channel date rule only.
C10_TwoNotionsOfInvalid ==
    (pc = "returned" /\ Len(Items) >= 1) =>
        LET c == Parse(rss.Channel.PubDate)
            i == Parse(Items[1].PubDate)
        IN  /\ c.err =>
                  /\ \E e \in ErrSet : IsChannelDateErr(e) /\ e.got = rss.Channel.PubDate
                  /\ \E e \in ErrSet : e.msg = "invalid date format in channel"
                                       /\ e.got = rss.Channel.PubDate
                  /\ Len(SelectSeq(result.errs,
                         LAMBDA e : IsChannelDateErr(e) \/ IsConsistencyErr(e))) = 2
            /\ (/\ ~c.err
                /\ Format(c) # rss.Channel.PubDate
                /\ ~i.err
                /\ c.day = i.day /\ c.sec = i.sec /\ c.nsec = i.nsec) =>
                  /\ \E e \in ErrSet :
                        IsChannelDateErr(e) /\ e.msg = "day of week is not correct"
                  /\ ~\E e \in ErrSet : IsConsistencyErr(e)

\* the channel date has a wrong weekday and is the instant of item 0:
\* one error, from the channel date rule
C10_Witness ==
    /\ pc = "returned"
    /\ rss.Channel.PubDate = WedJan1
    /\ Len(Items) = 1
    /\ Items[1].PubDate = TueJan1
    /\ Len(result.errs) = 1
    /\ IsChannelDateErr(result.errs[1])

\* C4: validateRSSDate accepts a string exactly when it parses and the
\* parsed time formats back to it; and a string that differs from an
\* accepted one only by naming another weekday parses and is rejected
\* with the day-of-week error.
OtherWeekdayAccepted ==
    /\ Len(str) >= 3
    /\ \E v, w \in 1..Len(shortDayNames) :
          /\ v # w
          /\ SubSeq(str, 1, 3) = shortDayNames[v]
          /\ validateRSSDate(shortDayNames[w] \o Drop(str, 3)) = Nil

C4_RoundTripLaw ==
    pc = "dateReturned" =>
        /\ (dateErr = Nil) <=> (~Parse(str).err /\ Format(Parse(str)) = str)
        /\ OtherWeekdayAccepted =>
              /\ ~Parse(str).err
              /\ dateErr.msg = "day of week is not correct"
              /\ dateErr.got = str

\* "Wed, 01 Jan 2019 00:00:00 +0000" is rejected for its weekday
C4_Witness ==
    /\ pc = "dateReturned"
    /\ str = WedJan1
    /\ OtherWeekdayAccepted
    /\ dateErr.msg = "day of week is not correct"
    /\ dateErr.want = TueJan1

\* what the walk is about to meet, stated on the directory listing
Matching(e) ==
    /\ ~e.isDir
    /\ Len(e.path) >= 4
    /\ SubSeq(e.path, Len(e.path) - 3, Len(e.path))
          \in {<<".", "x", "m", "l">>, <<".", "r", "s", "s">>}

Fails(e) == e.data.readErr \/ e.data.xmlErr \/ ~Validate(e.data.rss).isNil

WalkFails == \E i \in 1..Len(feed) : feed[i].err

\* C5: the run exits non-zero exactly when the walk fails or a matching
\* file fails to be read, to be unmarshalled or to validate; with no
\* matching file and no walk error it exits zero and prints nothing.
C5_ExitStatus ==
    pc = "exited" =>
        /\ exitCode \in {0, 1}
        /\ (exitCode # 0) <=>
              (WalkFails \/ \E i \in 1..Len(feed) : Matching(feed[i]) /\ Fails(feed[i]))
        /\ (~WalkFails /\ ~\E i \in 1..Len(feed) : Matching(feed[i])) =>
              (exitCode = 0 /\ out = <<>>)

\* the walk succeeded, a matching file failed and the one after it passed
C5_Witness ==
    /\ pc = "exited"
    /\ exitCode = 1
    /\ ~WalkFails
    /\ Len(feed) = 3
    /\ Matching(feed[2]) /\ Fails(feed[2])
    /\ Matching(feed[3]) /\ ~Fails(feed[3])

PathsOf(seq) == [i \in 1..Len(seq) |-> seq[i].path]

IsVerifying(line) == line.text = "Verifying"

\* C9: when the walk ends without a walk error, the files announced as
\* verified are the matching files, each once, in walk order; and the
\* success flag, once false, stays false.
C9_EveryFileVerified ==
    /\ []((pc \in {"walked", "exited"} /\ walkErr = NoError) =>
             PathsOf(SelectSeq(out, IsVerifying)) = PathsOf(SelectSeq(feed, Matching)))
    /\ [][(~success) => (~success')]_vars

\* a file failed, and the next file was verified and passed
C9_Witness ==
    /\ pc = "walked"
    /\ walkErr = NoError
    /\ ~success
    /\ Len(out) >= 4
    /\ out[Len(out)].text = "RSS file verification passed for"
    /\ \E i \in 1..Len(out) : out[i].text = "Validation failed"

====
